---- MODULE Spec2Model ----
(***************************************************************************)
(* Model of the trading-account ledger of output/accounts.py (class        *)
(* Account, get_share_price, Transaction) and of the way output/app.py     *)
(* exposes one module-level Account to its UI handlers.                    *)
(*                                                                         *)
(* Money is modelled with exact integer arithmetic (the ledger's amounts   *)
(* are real numbers in the design; IEEE rounding, inf and nan are not      *)
(* modelled).  The timestamp field of Transaction is not modelled: no      *)
(* operation of Account reads it.  Optional fields (Union[..., None]) are  *)
(* sequences: <<>> is None, <<v>> is the value v.                          *)
(***************************************************************************)
EXTENDS Integers, Sequences, FiniteSets, TLC

VARIABLES cash_balance, holdings, transactions, initial_deposit,
          last, result, created, thr,
          prev, create_index, snap_holdings, snap_transactions

ledger == <<cash_balance, holdings, transactions, initial_deposit>>
vars == <<cash_balance, holdings, transactions, initial_deposit,
          last, result, created, thr,
          prev, create_index, snap_holdings, snap_transactions>>

\* values a caller holds: what get_holdings() / list_transactions() returned
snaps == <<snap_holdings, snap_transactions>>
\* history of the sequential caller: the cash and holdings before its last
\* call (prev) and the log position of the successful create (create_index)
hist == <<prev, create_index>>

\* ---- bounds of the model ------------------------------------------------
MaxLog == 4
MaxConcLog == 3
MaxSnapLog == 2
MaxQty == 2
NumThreads == 2

\* ---- inputs -------------------------------------------------------------
Amounts == {-150, 0, 150, 2800}
Quantities == (-1) .. MaxQty
\* two symbols the oracle prices and one ("MSFT") it does not
Symbols == {"AAPL", "GOOGL", "MSFT"}
Threads == 1 .. NumThreads

None == <<>>
Some(v) == <<v>>

\* ---- price oracle -------------------------------------------------------
prices == [s \in {"AAPL", "TSLA", "GOOGL"} |->
             CASE s = "AAPL" -> 150
               [] s = "TSLA" -> 700
               [] s = "GOOGL" -> 2800]

\* get_share_price raises ValueError("Unknown share symbol") iff this is FALSE
KnownSymbol(symbol) == symbol \in DOMAIN prices

get_share_price(symbol) == prices[symbol]

\* ---- Transaction --------------------------------------------------------
Transaction(type, amount, symbol, quantity, price_per_share) ==
  [type |-> type, amount |-> amount, symbol |-> symbol,
   quantity |-> quantity, price_per_share |-> price_per_share]

\* the records the five operations construct (defaults: amount 0.0, rest None)
CashTransaction(type, amount) == Transaction(type, amount, None, None, None)

ShareTransactionNoPrice(type, symbol, quantity, share_price) ==
  Transaction(type, 0, Some(symbol), Some(quantity), None)

ShareTransaction(type, symbol, quantity, share_price) ==
  Transaction(type, 0, Some(symbol), Some(quantity), Some(share_price))

\* ---- dict helpers -------------------------------------------------------
\* self._holdings.get(symbol, 0)
HoldingsGet(h, symbol) == IF symbol \in DOMAIN h THEN h[symbol] ELSE 0

\* self._holdings[symbol] = n
HoldingsSet(h, symbol, n) ==
  [s \in DOMAIN h \cup {symbol} |-> IF s = symbol THEN n ELSE h[s]]

\* del self._holdings[symbol]
HoldingsDel(h, symbol) == [s \in DOMAIN h \ {symbol} |-> h[s]]

Call(op, amount, symbol, quantity) ==
  [op |-> op, amount |-> amount, symbol |-> symbol, quantity |-> quantity]

\* ---- a UI handler running on a worker thread --------------------------------
\* pc is the handler's position inside the Account method it called; the other
\* fields are the method's arguments and locals.
Frame(pc, op, amount, symbol, quantity, current_quantity, share_price, tmp) ==
  [pc |-> pc, op |-> op, amount |-> amount, symbol |-> symbol,
   quantity |-> quantity, current_quantity |-> current_quantity,
   share_price |-> share_price, tmp |-> tmp]

Idle == Frame("idle", "", 0, "", 0, 0, 0, 0)

\* ---- values handed to a caller ------------------------------------------
\* A returned dict or list is either a new object holding a copy of the
\* contents (alias FALSE) or the ledger's own object (alias TRUE); taken is
\* FALSE while the caller has asked for nothing.
NoSnapshot == [taken |-> FALSE, alias |-> FALSE, value |-> <<>>]

\* dict(x) / list(x): a new object with the contents of x
NewCopy(x) == [taken |-> TRUE, alias |-> FALSE, value |-> x]

\* x itself
SameObject(x) == [taken |-> TRUE, alias |-> TRUE, value |-> x]

\* ---- Account.__init__ ---------------------------------------------------
Init ==
  /\ cash_balance = 0
  /\ holdings = <<>>
  /\ transactions = <<>>
  /\ initial_deposit = 0
  /\ last = Call("init", 0, "", 0)
  /\ result = "ok"
  /\ created = 0
  /\ thr = [t \in Threads |-> Idle]
  /\ prev = [cash_balance |-> 0, holdings |-> <<>>]
  /\ create_index = 0
  /\ snap_holdings = NoSnapshot
  /\ snap_transactions = NoSnapshot

\* ---- validation of the five mutating operations ---------------------------
\* Each *Error operator is the sequence of raise statements of the method,
\* in source order; "ok" means no raise.  The ValueError messages are
\* classified by kind:
\*   "Account already created with initial deposit."   AlreadyInitialized
\*   "... must be greater than zero."                  InvalidAmount
\*   "Insufficient funds ..."                          InsufficientFunds
\*   "Insufficient shares held to sell."               InsufficientShares
\*   "Unknown share symbol: ..."                       UnknownSymbol
\* No method raises a "not initialized" error.

CreateErrorNoGuard(d) ==
  IF d <= 0 THEN "InvalidAmount" ELSE "ok"

CreateErrorOnCash(d) ==
  IF cash_balance > 0 THEN "AlreadyInitialized"
  ELSE IF d <= 0 THEN "InvalidAmount"
  ELSE "ok"

CreateError(d) ==
  IF initial_deposit > 0 THEN "AlreadyInitialized"
  ELSE IF d <= 0 THEN "InvalidAmount"
  ELSE "ok"

DepositErrorAllowsZero(amount) ==
  IF amount < 0 THEN "InvalidAmount" ELSE "ok"

DepositError(amount) ==
  IF amount <= 0 THEN "InvalidAmount" ELSE "ok"

WithdrawErrorNoFundsCheck(amount) ==
  IF amount <= 0 THEN "InvalidAmount" ELSE "ok"

WithdrawError(amount) ==
  IF amount <= 0 THEN "InvalidAmount"
  ELSE IF amount > cash_balance THEN "InsufficientFunds"
  ELSE "ok"

BuyError(symbol, quantity) ==
  IF quantity <= 0 THEN "InvalidAmount"
  ELSE IF ~KnownSymbol(symbol) THEN "UnknownSymbol"
  ELSE IF get_share_price(symbol) * quantity > cash_balance
       THEN "InsufficientFunds"
  ELSE "ok"

SellErrorOffByOne(symbol, quantity) ==
  IF quantity <= 0 THEN "InvalidAmount"
  ELSE IF quantity >= HoldingsGet(holdings, symbol) THEN "InsufficientShares"
  ELSE IF ~KnownSymbol(symbol) THEN "UnknownSymbol"
  ELSE "ok"

SellErrorPriceFirst(symbol, quantity) ==
  IF quantity <= 0 THEN "InvalidAmount"
  ELSE IF ~KnownSymbol(symbol) THEN "UnknownSymbol"
  ELSE IF quantity > HoldingsGet(holdings, symbol) THEN "InsufficientShares"
  ELSE "ok"

SellError(symbol, quantity) ==
  IF quantity <= 0 THEN "InvalidAmount"
  ELSE IF quantity > HoldingsGet(holdings, symbol) THEN "InsufficientShares"
  ELSE IF ~KnownSymbol(symbol) THEN "UnknownSymbol"
  ELSE "ok"

\* holdings after a sale of quantity out of current_quantity (sell, 214-219)
SellHoldingsKeepZero(h, symbol, current_quantity, quantity) ==
  HoldingsSet(h, symbol, current_quantity - quantity)

SellHoldings(h, symbol, current_quantity, quantity) ==
  LET new_quantity == current_quantity - quantity IN
  IF new_quantity = 0 THEN HoldingsDel(h, symbol)
  ELSE HoldingsSet(h, symbol, new_quantity)

\* ---- the mutating operations, one call per step ---------------------------
Before == [cash_balance |-> cash_balance, holdings |-> holdings]

create_account(d) ==
  LET e == CreateError(d) IN
  /\ (e = "ok") => Len(transactions) < MaxLog
  /\ last' = Call("create", d, "", 0)
  /\ result' = e
  /\ IF e = "ok"
     THEN /\ cash_balance' = d
          /\ initial_deposit' = d
          /\ transactions' = Append(transactions, CashTransaction("deposit", d))
          /\ created' = created + 1
          /\ create_index' = Len(transactions) + 1
          /\ UNCHANGED holdings
     ELSE UNCHANGED <<ledger, created, create_index>>
  /\ prev' = Before
  /\ UNCHANGED <<thr, snaps>>

depositLogsFailure(amount) ==
  LET e == DepositError(amount) IN
  /\ Len(transactions) < MaxLog
  /\ last' = Call("deposit", amount, "", 0)
  /\ result' = e
  /\ cash_balance' = IF e = "ok" THEN cash_balance + amount ELSE cash_balance
  /\ transactions' = Append(transactions, CashTransaction("deposit", amount))
  /\ prev' = Before
  /\ UNCHANGED <<holdings, initial_deposit, created, create_index, thr,
                 snaps>>

deposit(amount) ==
  LET e == DepositError(amount) IN
  /\ (e = "ok") => Len(transactions) < MaxLog
  /\ last' = Call("deposit", amount, "", 0)
  /\ result' = e
  /\ IF e = "ok"
     THEN /\ cash_balance' = cash_balance + amount
          /\ transactions' =
               Append(transactions, CashTransaction("deposit", amount))
          /\ UNCHANGED <<holdings, initial_deposit>>
     ELSE UNCHANGED ledger
  /\ prev' = Before
  /\ UNCHANGED <<created, create_index, thr, snaps>>

withdraw(amount) ==
  LET e == WithdrawError(amount) IN
  /\ (e = "ok") => Len(transactions) < MaxLog
  /\ last' = Call("withdraw", amount, "", 0)
  /\ result' = e
  /\ IF e = "ok"
     THEN /\ cash_balance' = cash_balance - amount
          /\ transactions' =
               Append(transactions, CashTransaction("withdrawal", amount))
          /\ UNCHANGED <<holdings, initial_deposit>>
     ELSE UNCHANGED ledger
  /\ prev' = Before
  /\ UNCHANGED <<created, create_index, thr, snaps>>

buyPartialEffect(symbol, quantity) ==
  LET e == BuyError(symbol, quantity) IN
  /\ (e = "ok") => Len(transactions) < MaxLog
  /\ last' = Call("buy", 0, symbol, quantity)
  /\ result' = e
  /\ IF e = "ok"
     THEN /\ cash_balance' = cash_balance - get_share_price(symbol) * quantity
          /\ holdings' = HoldingsSet(holdings, symbol,
                                     HoldingsGet(holdings, symbol) + quantity)
          /\ transactions' = Append(transactions,
                ShareTransaction("buy", symbol, quantity,
                                 get_share_price(symbol)))
          /\ UNCHANGED initial_deposit
     ELSE IF e = "InsufficientFunds"
     THEN /\ holdings' = HoldingsSet(holdings, symbol,
                                     HoldingsGet(holdings, symbol) + quantity)
          /\ UNCHANGED <<cash_balance, transactions, initial_deposit>>
     ELSE UNCHANGED ledger
  /\ prev' = Before
  /\ UNCHANGED <<created, create_index, thr, snaps>>

buyOverwritesHoldings(symbol, quantity) ==
  LET e == BuyError(symbol, quantity) IN
  /\ (e = "ok") => Len(transactions) < MaxLog
  /\ last' = Call("buy", 0, symbol, quantity)
  /\ result' = e
  /\ IF e = "ok"
     THEN LET share_price == get_share_price(symbol)
              total_cost == share_price * quantity
          IN /\ cash_balance' = cash_balance - total_cost
             /\ holdings' = HoldingsSet(holdings, symbol, quantity)
             /\ transactions' = Append(transactions,
                   ShareTransaction("buy", symbol, quantity, share_price))
             /\ UNCHANGED initial_deposit
     ELSE UNCHANGED ledger
  /\ prev' = Before
  /\ UNCHANGED <<created, create_index, thr, snaps>>

buyUnpricedSymbol(symbol, quantity) ==
  LET e == IF quantity <= 0 THEN "InvalidAmount"
           ELSE IF KnownSymbol(symbol)
                   /\ get_share_price(symbol) * quantity > cash_balance
                THEN "InsufficientFunds"
           ELSE "ok"
      share_price == IF KnownSymbol(symbol) THEN get_share_price(symbol)
                     ELSE 0
  IN
  /\ (e = "ok") => Len(transactions) < MaxLog
  /\ last' = Call("buy", 0, symbol, quantity)
  /\ result' = e
  /\ IF e = "ok"
     THEN /\ cash_balance' = cash_balance - share_price * quantity
          /\ holdings' = HoldingsSet(holdings, symbol,
                             HoldingsGet(holdings, symbol) + quantity)
          /\ transactions' = Append(transactions,
                ShareTransaction("buy", symbol, quantity, share_price))
          /\ UNCHANGED initial_deposit
     ELSE UNCHANGED ledger
  /\ prev' = Before
  /\ UNCHANGED <<created, create_index, thr, snaps>>

buy(symbol, quantity) ==
  LET e == BuyError(symbol, quantity) IN
  /\ (e = "ok") => Len(transactions) < MaxLog
  /\ last' = Call("buy", 0, symbol, quantity)
  /\ result' = e
  /\ IF e = "ok"
     THEN LET share_price == get_share_price(symbol)
              total_cost == share_price * quantity
          IN /\ cash_balance' = cash_balance - total_cost
             /\ holdings' = HoldingsSet(holdings, symbol,
                                HoldingsGet(holdings, symbol) + quantity)
             /\ transactions' = Append(transactions,
                   ShareTransaction("buy", symbol, quantity, share_price))
             /\ UNCHANGED initial_deposit
     ELSE UNCHANGED ledger
  /\ prev' = Before
  /\ UNCHANGED <<created, create_index, thr, snaps>>

sell(symbol, quantity) ==
  LET e == SellError(symbol, quantity) IN
  /\ (e = "ok") => Len(transactions) < MaxLog
  /\ last' = Call("sell", 0, symbol, quantity)
  /\ result' = e
  /\ IF e = "ok"
     THEN LET current_quantity == HoldingsGet(holdings, symbol)
              share_price == get_share_price(symbol)
              total_proceeds == share_price * quantity
          IN /\ holdings' =
                  SellHoldings(holdings, symbol, current_quantity, quantity)
             /\ cash_balance' = cash_balance + total_proceeds
             /\ transactions' = Append(transactions,
                   ShareTransaction("sell", symbol, quantity, share_price))
             /\ UNCHANGED initial_deposit
     ELSE UNCHANGED ledger
  /\ prev' = Before
  /\ UNCHANGED <<created, create_index, thr, snaps>>

\* ---- queries ---------------------------------------------------------------
Returned(v) == [exc |-> "none", value |-> v]
Raised(e) == [exc |-> e, value |-> 0]

RECURSIVE SharesValue(_, _)
SharesValue(h, syms) ==
  IF syms = {} THEN 0
  ELSE LET s == CHOOSE x \in syms : TRUE
       IN get_share_price(s) * h[s] + SharesValue(h, syms \ {s})

get_cash_balance == cash_balance

\* return self._holdings, without the copy
get_holdingsSameObject == SameObject(holdings)

\* return dict(self._holdings)
get_holdings == NewCopy(holdings)

get_portfolio_valueCashOnly == Returned(cash_balance)

get_portfolio_value ==
  IF \E s \in DOMAIN holdings : ~KnownSymbol(s)
  THEN Raised("UnknownSymbol")
  ELSE Returned(cash_balance + SharesValue(holdings, DOMAIN holdings))

get_profit_loss ==
  LET current_value == get_portfolio_value IN
  IF current_value.exc # "none" THEN current_value
  ELSE Returned(current_value.value - initial_deposit)

\* return list(self._transactions)
list_transactions == NewCopy(transactions)

\* ---- sequential specification: one caller, one call per step ---------------
Next ==
  \/ \E d \in Amounts : create_account(d)
  \/ \E a \in Amounts : deposit(a)
  \/ \E a \in Amounts : withdraw(a)
  \/ \E s \in Symbols, q \in Quantities : buy(s, q)
  \/ \E s \in Symbols, q \in Quantities : sell(s, q)

Spec == Init /\ [][Next]_vars

\* ---- specification with a caller that keeps what the queries return -------
\* The contents the caller sees through a value it was handed.
HoldingsSeen ==
  IF snap_holdings.alias THEN holdings ELSE snap_holdings.value

TransactionsSeen ==
  IF snap_transactions.alias THEN transactions ELSE snap_transactions.value

\* the caller calls get_holdings() and keeps the result
ReadHoldings ==
  /\ snap_holdings' = get_holdings
  /\ last' = Call("get_holdings", 0, "", 0)
  /\ result' = "ok"
  /\ UNCHANGED <<ledger, created, thr, hist, snap_transactions>>

\* the caller calls list_transactions() and keeps the result
ReadTransactions ==
  /\ snap_transactions' = list_transactions
  /\ last' = Call("list_transactions", 0, "", 0)
  /\ result' = "ok"
  /\ UNCHANGED <<ledger, created, thr, hist, snap_holdings>>

\* the caller calls clear() on the dict it was handed
MutateHoldingsSnapshot ==
  /\ snap_holdings.taken
  /\ IF snap_holdings.alias
     THEN /\ holdings' = <<>>
          /\ UNCHANGED snap_holdings
     ELSE /\ snap_holdings' = [snap_holdings EXCEPT !.value = <<>>]
          /\ UNCHANGED holdings
  /\ last' = Call("mutate_holdings_snapshot", 0, "", 0)
  /\ result' = "ok"
  /\ UNCHANGED <<cash_balance, transactions, initial_deposit, created, thr,
                 hist, snap_transactions>>

\* the caller calls clear() on the list it was handed
MutateTransactionsSnapshot ==
  /\ snap_transactions.taken
  /\ IF snap_transactions.alias
     THEN /\ transactions' = <<>>
          /\ UNCHANGED snap_transactions
     ELSE /\ snap_transactions' = [snap_transactions EXCEPT !.value = <<>>]
          /\ UNCHANGED transactions
  /\ last' = Call("mutate_transactions_snapshot", 0, "", 0)
  /\ result' = "ok"
  /\ UNCHANGED <<cash_balance, holdings, initial_deposit, created, thr,
                 hist, snap_holdings>>

LedgerCall == Next /\ Len(transactions') <= MaxSnapLog

NextSnap ==
  \/ LedgerCall
  \/ ReadHoldings
  \/ ReadTransactions
  \/ MutateHoldingsSnapshot
  \/ MutateTransactionsSnapshot

SpecSnap == Init /\ [][NextSnap]_vars

\* ---- concurrent specification ----------------------------------------------
\* app.py binds the *_ui handlers to one module-level Account; the handlers
\* run on worker threads and Account takes no lock, so a method's reads and
\* writes of self._cash_balance, self._holdings, self._initial_deposit and
\* self._transactions interleave with another handler's.  A Call* action is
\* the handler up to and including the method's validation (its one read of
\* the shared field it checks); each Step* action is one later read or write
\* of a shared field.
InFlight == Cardinality({t \in Threads : thr[t].pc # "idle"})

CanCall(t) == thr[t].pc = "idle" /\ Len(transactions) + InFlight < MaxConcLog

Goto(t, f) == thr' = [thr EXCEPT ![t] = f]

CallCreate(t, d) ==
  /\ CanCall(t)
  /\ IF CreateError(d) = "ok"
     THEN Goto(t, Frame("create_cash", "create", d, "", 0, 0, 0, 0))
     ELSE UNCHANGED thr
  /\ UNCHANGED <<ledger, last, result, created, hist, snaps>>

CallDeposit(t, amount) ==
  /\ CanCall(t)
  /\ IF DepositError(amount) = "ok"
     THEN Goto(t, Frame("cash_load", "deposit", amount, "", 0, 0, 0, 0))
     ELSE UNCHANGED thr
  /\ UNCHANGED <<ledger, last, result, created, hist, snaps>>

CallWithdraw(t, amount) ==
  /\ CanCall(t)
  /\ IF WithdrawError(amount) = "ok"
     THEN Goto(t, Frame("cash_load", "withdraw", amount, "", 0, 0, 0, 0))
     ELSE UNCHANGED thr
  /\ UNCHANGED <<ledger, last, result, created, hist, snaps>>

\* buy_shares_ui / sell_shares_ui look the symbol up before calling the method
CallBuy(t, symbol, quantity) ==
  /\ CanCall(t)
  /\ IF KnownSymbol(symbol) /\ BuyError(symbol, quantity) = "ok"
     THEN Goto(t, Frame("cash_load", "buy", 0, symbol, quantity, 0,
                        get_share_price(symbol), 0))
     ELSE UNCHANGED thr
  /\ UNCHANGED <<ledger, last, result, created, hist, snaps>>

CallSell(t, symbol, quantity) ==
  /\ CanCall(t)
  /\ IF KnownSymbol(symbol) /\ SellError(symbol, quantity) = "ok"
     THEN Goto(t, Frame("sell_hold", "sell", 0, symbol, quantity,
                        HoldingsGet(holdings, symbol),
                        get_share_price(symbol), 0))
     ELSE UNCHANGED thr
  /\ UNCHANGED <<ledger, last, result, created, hist, snaps>>

\* create_account: self._cash_balance = initial_deposit
StepCreateCash(t) ==
  /\ thr[t].pc = "create_cash"
  /\ cash_balance' = thr[t].amount
  /\ Goto(t, [thr[t] EXCEPT !.pc = "create_init"])
  /\ UNCHANGED <<holdings, transactions, initial_deposit, last, result,
                 created, hist, snaps>>

\* create_account: self._initial_deposit = initial_deposit
StepCreateInit(t) ==
  /\ thr[t].pc = "create_init"
  /\ initial_deposit' = thr[t].amount
  /\ Goto(t, [thr[t] EXCEPT !.pc = "append"])
  /\ UNCHANGED <<cash_balance, holdings, transactions, last, result,
                 created, hist, snaps>>

\* sell: del self._holdings[symbol] (KeyError when another sale has already
\* removed it; the handler catches it) or self._holdings[symbol] = new_quantity
StepSellHold(t) ==
  LET f == thr[t]
      new_quantity == f.current_quantity - f.quantity
  IN /\ f.pc = "sell_hold"
     /\ IF new_quantity = 0 /\ f.symbol \notin DOMAIN holdings
        THEN Goto(t, Idle) /\ UNCHANGED holdings
        ELSE /\ holdings' = SellHoldings(holdings, f.symbol,
                                         f.current_quantity, f.quantity)
             /\ Goto(t, [f EXCEPT !.pc = "cash_load"])
     /\ UNCHANGED <<cash_balance, transactions, initial_deposit, last, result,
                    created, hist, snaps>>

\* the read half of self._cash_balance += x / -= x
StepCashLoad(t) ==
  /\ thr[t].pc = "cash_load"
  /\ Goto(t, [thr[t] EXCEPT !.pc = "cash_store", !.tmp = cash_balance])
  /\ UNCHANGED <<ledger, last, result, created, hist, snaps>>

CashDelta(f) ==
  CASE f.op = "deposit" -> f.amount
    [] f.op = "withdraw" -> 0 - f.amount
    [] f.op = "buy" -> 0 - f.share_price * f.quantity
    [] f.op = "sell" -> f.share_price * f.quantity

\* the write half of self._cash_balance += x / -= x
StepCashStore(t) ==
  LET f == thr[t] IN
  /\ f.pc = "cash_store"
  /\ cash_balance' = f.tmp + CashDelta(f)
  /\ Goto(t, [f EXCEPT !.pc = IF f.op = "buy" THEN "hold_load" ELSE "append"])
  /\ UNCHANGED <<holdings, transactions, initial_deposit, last, result,
                 created, hist, snaps>>

\* buy: self._holdings.get(symbol, 0)
StepHoldLoad(t) ==
  /\ thr[t].pc = "hold_load"
  /\ Goto(t, [thr[t] EXCEPT !.pc = "hold_store",
                            !.current_quantity =
                               HoldingsGet(holdings, thr[t].symbol)])
  /\ UNCHANGED <<ledger, last, result, created, hist, snaps>>

\* buy: self._holdings[symbol] = ... + quantity
StepHoldStore(t) ==
  LET f == thr[t] IN
  /\ f.pc = "hold_store"
  /\ holdings' = HoldingsSet(holdings, f.symbol,
                             f.current_quantity + f.quantity)
  /\ Goto(t, [f EXCEPT !.pc = "append"])
  /\ UNCHANGED <<cash_balance, transactions, initial_deposit, last, result,
                 created, hist, snaps>>

FrameTransaction(f) ==
  CASE f.op = "create" -> CashTransaction("deposit", f.amount)
    [] f.op = "deposit" -> CashTransaction("deposit", f.amount)
    [] f.op = "withdraw" -> CashTransaction("withdrawal", f.amount)
    [] f.op \in {"buy", "sell"} ->
         ShareTransaction(f.op, f.symbol, f.quantity, f.share_price)

\* self._transactions.append(Transaction(...)), then the handler returns
StepAppend(t) ==
  /\ thr[t].pc = "append"
  /\ transactions' = Append(transactions, FrameTransaction(thr[t]))
  /\ Goto(t, Idle)
  /\ UNCHANGED <<cash_balance, holdings, initial_deposit, last, result,
                 created, hist, snaps>>

NextConc ==
  \/ \E t \in Threads, d \in Amounts : CallCreate(t, d)
  \/ \E t \in Threads, a \in Amounts : CallDeposit(t, a)
  \/ \E t \in Threads, a \in Amounts : CallWithdraw(t, a)
  \/ \E t \in Threads, s \in Symbols, q \in Quantities : CallBuy(t, s, q)
  \/ \E t \in Threads, s \in Symbols, q \in Quantities : CallSell(t, s, q)
  \/ \E t \in Threads : StepCreateCash(t)
  \/ \E t \in Threads : StepCreateInit(t)
  \/ \E t \in Threads : StepSellHold(t)
  \/ \E t \in Threads : StepCashLoad(t)
  \/ \E t \in Threads : StepCashStore(t)
  \/ \E t \in Threads : StepHoldLoad(t)
  \/ \E t \in Threads : StepHoldStore(t)
  \/ \E t \in Threads : StepAppend(t)

SpecConc == Init /\ [][NextConc]_vars

\* ==== properties ====
MutatingOps == {"deposit", "withdraw", "buy", "sell"}

\* C1: while no create has succeeded, every deposit, withdraw, buy and sell
\* call fails with NotInitialized and leaves cash_balance, holdings, the log
\* and initial_deposit unchanged.
C1_NotInitializedBeforeCreate ==
  [][(created = 0 /\ last'.op \in MutatingOps)
       => (result' = "NotInitialized" /\ UNCHANGED ledger)]_vars

\* C2: cash_balance >= 0 in every state reachable by any sequence of calls.
C2_CashNonNegative == cash_balance >= 0

C2_Witness ==
  /\ last.op = "withdraw" /\ result = "ok" /\ cash_balance = 0
  /\ Len(transactions) >= 2

\* C3: every symbol present in holdings maps to a count > 0; a successful buy
\* adds its positive quantity, a successful sell removes the entry when the
\* count reaches zero and otherwise leaves the positive remainder.
C3_HoldingsPositive ==
  /\ [](\A s \in DOMAIN holdings : holdings[s] > 0)
  /\ [][(result' = "ok" /\ last'.op \in {"buy", "sell"}) =>
          LET s == last'.symbol
              q == last'.quantity
              held == HoldingsGet(holdings, s)
          IN /\ q > 0
             /\ IF last'.op = "buy"
                THEN s \in DOMAIN holdings' /\ holdings'[s] = held + q
                ELSE IF held = q
                THEN s \notin DOMAIN holdings'
                ELSE s \in DOMAIN holdings' /\ holdings'[s] = held - q
                     /\ holdings'[s] > 0]_vars

C3_Witness ==
  /\ last.op = "sell" /\ result = "ok"
  /\ last.symbol \notin DOMAIN holdings

\* C4: the log is append-only: a successful call extends it by exactly one
\* record and keeps the earlier records in place, a failed call leaves it
\* as it was.
C4_LogAppendOnly ==
  [][IF result' = "ok"
     THEN /\ Len(transactions') = Len(transactions) + 1
          /\ SubSeq(transactions', 1, Len(transactions)) = transactions
     ELSE transactions' = transactions]_vars

C4_Witness ==
  /\ Len(transactions) >= 2
  /\ last.op = "deposit" /\ result = "InvalidAmount"

\* C5: a failed call leaves cash_balance, holdings, the log and
\* initial_deposit unchanged.
C5_FailureLeavesState ==
  [][result' # "ok" => UNCHANGED ledger]_vars

C5_Witness ==
  /\ last.op = "buy" /\ result = "InsufficientFunds"
  /\ DOMAIN holdings # {}

\* C6: initial_deposit is written only by the first successful create, which
\* sets it to its argument; no other step changes it and no second create
\* succeeds.
C6_InitialDepositOnce ==
  [][/\ IF last'.op = "create" /\ result' = "ok" /\ created = 0
        THEN initial_deposit' = last'.amount
        ELSE initial_deposit' = initial_deposit
     /\ created' <= 1]_vars

C6_Witness ==
  /\ created = 1 /\ Len(transactions) >= 3
  /\ initial_deposit # cash_balance

\* C7: once a create has succeeded, every later create with a positive amount
\* fails with AlreadyInitialized and leaves the ledger unchanged.
C7_SecondCreateFails ==
  [][(created >= 1 /\ last'.op = "create" /\ last'.amount > 0)
       => (result' = "AlreadyInitialized" /\ UNCHANGED ledger)]_vars

C7_Witness ==
  /\ created = 1 /\ cash_balance = 0
  /\ last.op = "create" /\ last.amount > 0 /\ result = "AlreadyInitialized"

\* quantities of a symbol bought and sold according to the log
RECURSIVE LoggedQuantity(_, _, _)
LoggedQuantity(log, type, symbol) ==
  IF log = <<>> THEN 0
  ELSE (IF Head(log).type = type /\ Head(log).symbol = Some(symbol)
        THEN Head(log).quantity[1] ELSE 0)
       + LoggedQuantity(Tail(log), type, symbol)

AllIdle == \A t \in Threads : thr[t].pc = "idle"

\* C8: with the handlers' validate and commit steps interleaved, once all
\* calls have returned the cash balance is not negative, no holdings count is
\* below zero and no more shares of a symbol were sold than were bought.
C8_NoRaceOverdraftOrOversell ==
  AllIdle =>
    /\ cash_balance >= 0
    /\ \A s \in DOMAIN holdings : holdings[s] >= 0
    /\ \A s \in Symbols :
         LoggedQuantity(transactions, "sell", s)
           <= LoggedQuantity(transactions, "buy", s)

\* C9: every buy or sell record has amount (cash_amount) equal to
\* price_per_share x quantity.
C9_TradeRecordsCashAmount ==
  \A i \in 1 .. Len(transactions) :
    transactions[i].type \in {"buy", "sell"} =>
      transactions[i].amount =
        transactions[i].price_per_share[1] * transactions[i].quantity[1]

\* C10: get_profit_loss() is get_portfolio_value() - initial_deposit once a
\* create has succeeded, and 0 while none has.
C10_ProfitLoss ==
  /\ get_profit_loss.exc = "none"
  /\ IF created = 0
     THEN get_profit_loss.value = 0
     ELSE get_profit_loss.value = get_portfolio_value.value - initial_deposit

\* the call about to be made repeats, as a sale, the purchase just made
SellsBackLastBuy ==
  /\ last.op = "buy" /\ result = "ok"
  /\ last'.op = "sell"
  /\ last'.symbol = last.symbol /\ last'.quantity = last.quantity

\* C11 (as stated): a sell(S, q) right after a successful buy(S, q) succeeds,
\* returns cash_balance to its value before the buy and removes S from
\* holdings.
C11_RoundTripRemovesSymbol ==
  [][SellsBackLastBuy =>
       /\ result' = "ok"
       /\ cash_balance' = prev.cash_balance
       /\ last.symbol \notin DOMAIN holdings']_vars

\* C11 (amended): a sell(S, q) right after a successful buy(S, q) succeeds and
\* returns cash_balance and holdings to their values before the buy; S is
\* absent afterwards exactly when it was not held before the buy.
C11_RoundTripRestores ==
  [][SellsBackLastBuy =>
       /\ result' = "ok"
       /\ cash_balance' = prev.cash_balance
       /\ holdings' = prev.holdings
       /\ (last.symbol \in DOMAIN holdings')
            = (last.symbol \in DOMAIN prev.holdings)]_vars

C11_Witness ==
  LET n == Len(transactions) IN
  /\ n >= 2
  /\ last.op = "sell" /\ result = "ok"
  /\ transactions[n].type = "sell" /\ transactions[n - 1].type = "buy"
  /\ transactions[n].symbol = transactions[n - 1].symbol
  /\ transactions[n].quantity = transactions[n - 1].quantity
  /\ last.symbol \in DOMAIN holdings

\* C12: sell(S, q) with q > 0 and q above the held quantity of S (0 when S is
\* absent, known to the oracle or not) fails with InsufficientShares whatever
\* the cash balance is and records nothing.
C12_OversellInsufficientShares ==
  [][(last'.op = "sell" /\ last'.quantity > 0
        /\ last'.quantity > HoldingsGet(holdings, last'.symbol))
       => (result' = "InsufficientShares" /\ UNCHANGED ledger)]_vars

C12_Witness ==
  /\ last.op = "sell" /\ result = "InsufficientShares"
  /\ ~KnownSymbol(last.symbol)
  /\ cash_balance > 0

\* C13: once a create has succeeded, deposit(a) with a > 0 adds exactly a to
\* cash_balance, keeps holdings and initial_deposit and appends one deposit
\* record with amount a; deposit(a) with a <= 0 fails with InvalidAmount and
\* changes nothing.
C13_Deposit ==
  [][(created >= 1 /\ last'.op = "deposit") =>
       IF last'.amount > 0
       THEN /\ result' = "ok"
            /\ cash_balance' = cash_balance + last'.amount
            /\ UNCHANGED <<holdings, initial_deposit>>
            /\ transactions' = Append(transactions,
                 [type |-> "deposit", amount |-> last'.amount,
                  symbol |-> None, quantity |-> None,
                  price_per_share |-> None])
       ELSE result' = "InvalidAmount" /\ UNCHANGED ledger]_vars

C13_Witness ==
  /\ created = 1 /\ last.op = "deposit" /\ result = "ok"
  /\ cash_balance = prev.cash_balance + last.amount
  /\ DOMAIN holdings # {}

\* C15: every record of the log has exactly the fields of its kind: a deposit
\* or withdrawal record has symbol, quantity and price_per_share absent, a buy
\* or sell record has all three present with quantity > 0 and price_per_share
\* the oracle price of its symbol.
C15_RecordFields ==
  \A i \in 1 .. Len(transactions) :
    LET t == transactions[i] IN
    /\ t.type \in {"deposit", "withdrawal", "buy", "sell"}
    /\ IF t.type \in {"deposit", "withdrawal"}
       THEN t.symbol = None /\ t.quantity = None /\ t.price_per_share = None
       ELSE /\ Len(t.symbol) = 1 /\ Len(t.quantity) = 1
            /\ Len(t.price_per_share) = 1
            /\ t.quantity[1] > 0
            /\ t.symbol[1] \in DOMAIN prices
            /\ t.price_per_share[1] = prices[t.symbol[1]]

C15_Witness ==
  /\ \E i \in 1 .. Len(transactions) : transactions[i].type = "sell"
  /\ \E i \in 1 .. Len(transactions) : transactions[i].type = "withdrawal"

\* the cash balance the log accounts for
RECURSIVE LoggedCash(_)
LoggedCash(log) ==
  IF log = <<>> THEN 0
  ELSE LET t == Head(log) IN
       (CASE t.type = "deposit" -> t.amount
          [] t.type = "withdrawal" -> 0 - t.amount
          [] t.type = "buy" -> 0 - t.quantity[1] * t.price_per_share[1]
          [] t.type = "sell" -> t.quantity[1] * t.price_per_share[1])
       + LoggedCash(Tail(log))

\* C16: cash_balance equals the balance reconstructed from the log: deposits
\* minus withdrawals minus the cost of buys plus the proceeds of sells.
C16_CashMatchesLog == cash_balance = LoggedCash(transactions)

\* C17: for every symbol the held quantity (0 when absent) equals the
\* quantities bought minus the quantities sold according to the log.
C17_HoldingsMatchLog ==
  \A s \in Symbols :
    HoldingsGet(holdings, s) =
      LoggedQuantity(transactions, "buy", s)
        - LoggedQuantity(transactions, "sell", s)

C17_Witness ==
  \E s \in DOMAIN holdings :
    /\ LoggedQuantity(transactions, "sell", s) > 0
    /\ LoggedQuantity(transactions, "buy", s) > holdings[s]

\* deposits minus withdrawals recorded after position i of the log
RECURSIVE NetDepositsAfter(_, _)
NetDepositsAfter(log, i) ==
  IF i >= Len(log) THEN 0
  ELSE (CASE log[i + 1].type = "deposit" -> log[i + 1].amount
          [] log[i + 1].type = "withdrawal" -> 0 - log[i + 1].amount
          [] OTHER -> 0)
       + NetDepositsAfter(log, i + 1)

\* C18: a successful buy or sell leaves get_portfolio_value() unchanged, a
\* successful deposit or withdraw changes it by exactly +amount or -amount,
\* and after a create that was the first successful call get_profit_loss()
\* equals the later deposits minus the later withdrawals.
C18_PortfolioValueConserved ==
  /\ [][(result' = "ok" /\ last'.op \in MutatingOps) =>
          /\ get_portfolio_value.exc = "none"
          /\ get_portfolio_value'.exc = "none"
          /\ get_portfolio_value'.value = get_portfolio_value.value
               + (CASE last'.op = "deposit" -> last'.amount
                    [] last'.op = "withdraw" -> 0 - last'.amount
                    [] OTHER -> 0)]_vars
  /\ [](create_index = 1 =>
          /\ get_profit_loss.exc = "none"
          /\ get_profit_loss.value = NetDepositsAfter(transactions, 1))

C18_Witness ==
  /\ create_index = 1 /\ DOMAIN holdings # {}
  /\ NetDepositsAfter(transactions, 1) # 0
  /\ get_profit_loss.value = NetDepositsAfter(transactions, 1)

\* C19: every symbol in holdings is one the oracle prices, so
\* get_portfolio_value() and get_profit_loss() do not fail with UnknownSymbol,
\* and a sell whose holdings check passes does not fail with UnknownSymbol.
C19_HoldingsPriced ==
  /\ \A s \in DOMAIN holdings : KnownSymbol(s)
  /\ get_portfolio_value.exc = "none"
  /\ get_profit_loss.exc = "none"
  /\ \A s \in Symbols, q \in Quantities :
       (q > 0 /\ q <= HoldingsGet(holdings, s)) => SellError(s, q) = "ok"
  /\ (last.op = "sell" => result # "UnknownSymbol")

C19_Witness ==
  /\ last.op = "buy" /\ result = "UnknownSymbol"
  /\ DOMAIN holdings # {}
  /\ get_portfolio_value.exc = "none"

SnapshotMutations ==
  {"mutate_holdings_snapshot", "mutate_transactions_snapshot"}

\* C14: what get_holdings() or list_transactions() returned is independent of
\* the ledger: a later mutating call leaves the returned value as it was, a
\* change made to the returned value leaves the ledger's holdings and log as
\* they were, and a read returns the ledger's current contents without
\* changing them (so two reads with no mutating call in between agree).
C14_SnapshotsIndependent ==
  [][/\ (last'.op \in MutatingOps \cup {"create"}) =>
          (HoldingsSeen' = HoldingsSeen /\ TransactionsSeen' = TransactionsSeen)
     /\ (last'.op \in SnapshotMutations) => UNCHANGED ledger
     /\ (last'.op = "get_holdings") =>
          (HoldingsSeen' = holdings /\ UNCHANGED ledger
             /\ TransactionsSeen' = TransactionsSeen)
     /\ (last'.op = "list_transactions") =>
          (TransactionsSeen' = transactions /\ UNCHANGED ledger
             /\ HoldingsSeen' = HoldingsSeen)]_vars

C14_Witness ==
  /\ snap_holdings.taken /\ snap_transactions.taken
  /\ last.op = "mutate_holdings_snapshot"
  /\ HoldingsSeen # holdings /\ DOMAIN holdings # {}
  /\ TransactionsSeen # transactions

====
